---- MODULE Spec2Model ----
(***************************************************************************)
(* Model of the interrupt-driven I2C master state machine of i2c.c:        *)
(* i2c_bus_reset, i2c_open, i2c_init_sm, i2c_tx_start, the interrupt       *)
(* vectors I2C0_IRQHandler / I2C1_IRQHandler and the four event handlers.  *)
(*                                                                         *)
(* One CPU: the task context (pc) is preempted by an interrupt vector      *)
(* unless interrupts are suppressed (primask).  The peripheral hardware is *)
(* the environment: it raises any set of interrupt flags at any time.  A   *)
(* vector is entered as soon as a flag is raised and deliverable, and runs *)
(* to its end (or to the wait inside i2c_bus_reset) before anything else.  *)
(* The application drives one sensor: it opens one of the two peripherals. *)
(***************************************************************************)
EXTENDS Integers, Sequences, FiniteSets, TLC

\* ------------------------------------------------------------------ bounds
MaxTrans == 2
MaxBytes == 2

\* --------------------------------------------------------------- constants
Periph == {0, 1}
States == {"req_res", "command_tx", "data_req", "data_rx", "m_stop"}
I2C_Flags == {"ACK", "NACK", "RXDATAV", "MSTOP"}
I2C_IEN_MASK == I2C_Flags
I2C_IEN_RESETVALUE == {}
I2C_IF_START == "START"
I2C_IFC_MASK == I2C_Flags \cup {I2C_IF_START}
I2C_BUS_BUSY == TRUE
I2C_BUS_READY == FALSE
SI7021_I2C_WRITE == 0
SI7021_I2C_READ == 1
I2C_ADDR_RW_SHIFT == 1
MSBYTE_SHIFT == 8
measure_RH_NHMM == 245
SI7021_ADDR == 64
Bytes == {18, 171}
Callbacks == {4}
TemplateStates == {"req_res", "data_req"}

\* ----------------------------------------------------------------- helpers
RECURSIVE BitOr(_, _)
BitOr(a, b) ==
  IF a = 0 THEN b
  ELSE IF b = 0 THEN a
  ELSE (IF (a % 2 = 1) \/ (b % 2 = 1) THEN 1 ELSE 0) + 2 * BitOr(a \div 2, b \div 2)

\* a << n; within the bounds no value reaches 2^31, so uint32_t never wraps
Shl(a, n) == a * 2^n

\* what the code does, in program order
Cmd(c) == [k |-> "CMD", c |-> c, v |-> 0]
Tx(v) == [k |-> "TXDATA", c |-> "", v |-> v]
Store(f) == [k |-> "STORE", c |-> f, v |-> 0]
Call(f, v) == [k |-> "CALL", c |-> f, v |-> v]
\* an event handled by a handler
Ev(e, v) == [e |-> e, v |-> v]

VARIABLES
  sm,        \* i2c0_sm / i2c1_sm: the live descriptor of each peripheral
  data,      \* *data: the caller-owned destination buffer of each peripheral
  I2C_IF,    \* I2Cn->IF: pending interrupt flags
  I2C_IEN,   \* I2Cn->IEN: enabled interrupt sources
  hwIdle,    \* (I2Cn->STATE & _I2C_STATE_STATE_MASK) == I2C_STATE_STATE_IDLE
  nvic,      \* NVIC enable bit of I2Cn_IRQn
  primask,   \* interrupts globally suppressed (CORE_ENTER_CRITICAL)
  pc,        \* position of the task context
  arg,       \* the descriptor the task passes to i2c_init_sm / i2c_tx_start
  rst,       \* i2c_bus_reset in progress: saved IEN and caller, per peripheral
  opened,    \* i2c_open has run for the peripheral
  asserted,  \* an EFM_ASSERT failed: the processor is halted
  blocks,    \* calls of sleep_block_mode(I2C_EM_BLOCK)
  unblocks,  \* calls of sleep_unblock_mode(I2C_EM_BLOCK)
  ncopy,     \* descriptor copies into the live slot so far
  inflight,  \* transactions copied into the slot whose busy was never cleared
  start,     \* descriptor fields and buffer at the copy
  trace,     \* events handled since the copy, while they follow a scenario
  log,       \* commands issued since the copy, while trace follows a scenario
  issued,    \* what the latest operation on the peripheral did, in order
  rxlog,     \* bytes stored since the copy
  cbs,       \* callbacks handed to the scheduler since the copy
  rel        \* sleep_unblock_mode calls since the copy

vars == <<sm, data, I2C_IF, I2C_IEN, hwIdle, nvic, primask, pc, arg, rst,
          opened, asserted, blocks, unblocks, ncopy, inflight, start, trace,
          log, issued, rxlog, cbs, rel>>

\* ----------------------------------------------------- scenarios recorded
EvACK == Ev("ACK", 0)
EvNACK == Ev("NACK", 0)
EvMSTOP == Ev("MSTOP", 0)
EvRX(b) == Ev("RXDATAV", b)

ScenarioRead2 == <<EvACK, EvACK, EvRX(171), EvRX(18), EvMSTOP>>
ScenarioRead3 == <<EvACK, EvACK, EvACK, EvRX(171), EvRX(18), EvMSTOP>>
ScenarioRetry == <<EvACK, EvNACK, EvACK>>
Scenarios == {ScenarioRead2, ScenarioRead3, ScenarioRetry}

Off == <<Ev("off", 0)>>
IsPrefix(s, t) == Len(s) <= Len(t) /\ SubSeq(t, 1, Len(s)) = s
Follow(tr, e) ==
  IF tr # Off /\ \E s \in Scenarios : IsPrefix(Append(tr, e), s)
  THEN Append(tr, e) ELSE Off
RECURSIVE FollowAll(_, _)
FollowAll(tr, es) ==
  IF es = <<>> THEN tr ELSE FollowAll(Follow(tr, Head(es)), Tail(es))

\* ---------------------------------------------------------------- records
Descriptor ==
  [I2Cn : Periph, curr_state : TemplateStates, busy : BOOLEAN,
   slave_addr : {SI7021_ADDR}, num_bytes : 1..MaxBytes, i2c_cb : Callbacks]

ZeroSm == [curr_state |-> "req_res", busy |-> FALSE, slave_addr |-> 0,
           num_bytes |-> 0, i2c_cb |-> 0]
NoArg == [I2Cn |-> 0, curr_state |-> "req_res", busy |-> FALSE,
          slave_addr |-> 0, num_bytes |-> 0, i2c_cb |-> 0]
NoRst == [active |-> FALSE, ien_state |-> {}, from |-> "none", entry |-> {}, still |-> {}]
NoStart == [curr_state |-> "req_res", num_bytes |-> 0, data |-> 0]

Init ==
  /\ sm = [p \in Periph |-> ZeroSm]
  /\ data = [p \in Periph |-> 0]
  /\ I2C_IF = [p \in Periph |-> {}]
  /\ I2C_IEN = [p \in Periph |-> I2C_IEN_RESETVALUE]
  /\ hwIdle = [p \in Periph |-> TRUE]
  /\ nvic = [p \in Periph |-> FALSE]
  /\ primask = FALSE
  /\ pc = "idle"
  /\ arg = NoArg
  /\ rst = [p \in Periph |-> NoRst]
  /\ opened = [p \in Periph |-> FALSE]
  /\ asserted = FALSE
  /\ blocks = 0
  /\ unblocks = 0
  /\ ncopy = [p \in Periph |-> 0]
  /\ inflight = [p \in Periph |-> {}]
  /\ start = [p \in Periph |-> NoStart]
  /\ trace = [p \in Periph |-> Off]
  /\ log = [p \in Periph |-> <<>>]
  /\ issued = [p \in Periph |-> <<>>]
  /\ rxlog = [p \in Periph |-> <<>>]
  /\ cbs = [p \in Periph |-> <<>>]
  /\ rel = [p \in Periph |-> 0]

\* the task context executes: not halted, interrupts not suppressed
TaskRuns == ~asserted /\ ~primask

\* effect of what an operation did on the peripheral's bus state
BusIdleAfter(idle, ops) ==
  IF \E i \in 1..Len(ops) : ops[i] = Cmd("START") THEN FALSE ELSE idle

\* the commands and TXDATA writes among what an operation did
RECURSIVE BusWrites(_)
BusWrites(ops) ==
  IF ops = <<>> THEN <<>>
  ELSE IF Head(ops).k \in {"CMD", "TXDATA"}
       THEN <<Head(ops)>> \o BusWrites(Tail(ops))
       ELSE BusWrites(Tail(ops))

\* ========================================================= pure code pieces
\* i2c_tx_start: the 8-bit header, 7 MSB the address, LSB the read/write bit
tx_header(slave_addr, rw) == BitOr(Shl(slave_addr, 1), rw)

\* the wait left out: the condition always holds
bus_ready_nowait(p) == TRUE

\* i2c_init_sm: the condition that ends `while(i2cN_sm.busy);`
bus_ready(p) == sm[p].busy = I2C_BUS_READY

\* i2c_init_sm: interrupts are suppressed from CORE_ENTER_CRITICAL (line 207)
\* on, so also during the wait at lines 219 / 233
wait_primask == TRUE

\* i2c_init_sm: the descriptor stored by `i2cN_sm = *i2c_sm;` after
\* `i2c_sm->busy = I2C_BUS_BUSY;` was applied to the caller's descriptor
init_copy(t) ==
  [curr_state |-> t.curr_state, busy |-> I2C_BUS_BUSY,
   slave_addr |-> t.slave_addr, num_bytes |-> t.num_bytes, i2c_cb |-> t.i2c_cb]

\* the third step left out: command_tx goes straight to data_rx
ack_next_skip(st) ==
  CASE st = "req_res" -> "command_tx"
    [] st = "command_tx" -> "data_rx"
    [] OTHER -> st

\* the default case of i2cn_ack_sm without its assertion
ack_handled_all(st) == TRUE

\* the read header built without the shift of the address
ack_cmds_noshift(st, slave_addr) ==
  CASE st = "req_res" -> <<Tx(measure_RH_NHMM)>>
    [] st = "command_tx" -> <<Cmd("START"), Tx(BitOr(slave_addr, SI7021_I2C_READ))>>
    [] OTHER -> <<>>

\* i2cn_ack_sm: the switch on curr_state
ack_handled(st) == st \in {"req_res", "command_tx", "data_req"}
ack_cmds(st, slave_addr) ==
  CASE st = "req_res" -> <<Tx(measure_RH_NHMM)>>
    [] st = "command_tx" ->
         <<Cmd("START"), Tx(BitOr(Shl(slave_addr, I2C_ADDR_RW_SHIFT), SI7021_I2C_READ))>>
    [] OTHER -> <<>>
ack_next(st) ==
  CASE st = "req_res" -> "command_tx"
    [] st = "command_tx" -> "data_req"
    [] st = "data_req" -> "data_rx"
    [] OTHER -> st

\* the retry in command_tx without the CONT command
nack_cmds_nocont(st, slave_addr) ==
  CASE st = "req_res" -> <<Cmd("START"), Tx(BitOr(slave_addr, SI7021_I2C_WRITE))>>
    [] st = "command_tx" -> <<Tx(measure_RH_NHMM)>>
    [] st = "data_req" -> <<Cmd("START"), Tx(BitOr(slave_addr, SI7021_I2C_READ))>>
    [] OTHER -> <<>>

\* i2cn_nack_sm: the switch on curr_state
nack_handled(st) == st \in {"req_res", "command_tx", "data_req"}
nack_cmds(st, slave_addr) ==
  CASE st = "req_res" -> <<Cmd("START"), Tx(BitOr(slave_addr, SI7021_I2C_WRITE))>>
    [] st = "command_tx" -> <<Cmd("CONT"), Tx(measure_RH_NHMM)>>
    [] st = "data_req" -> <<Cmd("START"), Tx(BitOr(slave_addr, SI7021_I2C_READ))>>
    [] OTHER -> <<>>
nack_next(st) == st

\* STOP issued before NACK
rx_cmds_swapped(n) ==
  IF n > 0 THEN <<Cmd("ACK")>> ELSE <<Cmd("STOP"), Cmd("NACK")>>
\* the byte shifted by the count of bytes instead of by bytes
rx_store_bits(buf, byte, n) == BitOr(buf, Shl(byte, n))

\* the shifted byte assigned instead of ORed
rx_store_assign(buf, byte, n) == Shl(byte, MSBYTE_SHIFT * n)

\* i2cn_rxdata_sm, case data_rx
rx_count(n) == n - 1
rx_store(buf, byte, n) == BitOr(buf, Shl(byte, MSBYTE_SHIFT * n))
rx_cmds(n) ==
  IF n > 0 THEN <<Cmd("ACK")>> ELSE <<Cmd("NACK"), Cmd("STOP")>>
rx_next(n) == IF n > 0 THEN "data_rx" ELSE "m_stop"

\* the bus reset moved to the front of case m_stop
mstop_ops_reset_first(cb) ==
  <<Call("i2c_bus_reset", 0), Store("busy"), Call("sleep_unblock_mode", 0),
    Call("add_scheduled_event", cb)>>

\* i2cn_mstop_sm: the switch on curr_state, and case m_stop in program order
mstop_handled(st) == st = "m_stop"
mstop_ops(cb) ==
  <<Store("busy"), Call("sleep_unblock_mode", 0), Call("add_scheduled_event", cb),
    Call("i2c_bus_reset", 0)>>

\* IEN set to the transfer mask instead of the saved value
reset_restore_mask(ien_state) == I2C_IEN_MASK

\* i2c_bus_reset: the value written back to IEN by `i2c->IEN = ien_state;`
reset_restore(ien_state) == ien_state
\* i2c_bus_reset: EFM_ASSERT(!(i2c->IF & _I2C_IEN_RESETVALUE))
reset_assert_ok(flags) == flags \cap I2C_IEN_RESETVALUE = {}
\* i2c_bus_reset up to the START+STOP command: the commands written
reset_cmds == <<Cmd("ABORT"), Cmd("CLEARTX"), Cmd("START|STOP")>>

\* every pending flag taken, enabled or not
irq_flags_all(pending, enabled) == pending

\* I2Cn_IRQHandler: `intflags = I2Cn->IF & I2Cn->IEN`, the flags it lowers
\* with `I2Cn->IFC = intflags` and the only ones it dispatches
irq_flags(pending, enabled) == pending \cap enabled
\* the peripheral sets the START flag when it transmits a START condition
StartRaised(ops) ==
  IF \E i \in 1..Len(ops) : ops[i] \in {Cmd("START"), Cmd("START|STOP")}
  THEN {I2C_IF_START} ELSE {}

\* ================================================================ handlers
\* A handler maps the machine it runs on to the machine it leaves:
\*   d: the live descriptor, buf: *data, rx: RXDATA, ops: what was done so
\*   far in this vector entry, evs: the events handled, stored: the bytes
\*   stored, fail: an EFM_ASSERT failed (nothing runs after it)
Machine(p, rx) ==
  [d |-> sm[p], buf |-> data[p], rx |-> rx, ops |-> <<>>, evs |-> <<>>,
   stored |-> <<>>, fail |-> FALSE]

i2cn_ack_sm(m) ==
  IF m.fail THEN m
  ELSE IF ack_handled(m.d.curr_state)
  THEN [m EXCEPT !.d.curr_state = ack_next(@),
                 !.ops = @ \o ack_cmds(m.d.curr_state, m.d.slave_addr),
                 !.evs = Append(@, EvACK)]
  ELSE [m EXCEPT !.fail = TRUE, !.evs = Append(@, EvACK)]

i2cn_nack_sm(m) ==
  IF m.fail THEN m
  ELSE IF nack_handled(m.d.curr_state)
  THEN [m EXCEPT !.d.curr_state = nack_next(@),
                 !.ops = @ \o nack_cmds(m.d.curr_state, m.d.slave_addr),
                 !.evs = Append(@, EvNACK)]
  ELSE [m EXCEPT !.fail = TRUE, !.evs = Append(@, EvNACK)]

i2cn_rxdata_sm(m) ==
  IF m.fail THEN m
  ELSE IF m.d.curr_state = "data_rx"
  THEN LET n == rx_count(m.d.num_bytes) IN
         [m EXCEPT !.d.num_bytes = n,
                   !.d.curr_state = rx_next(n),
                   !.buf = rx_store(@, m.rx, n),
                   !.ops = @ \o rx_cmds(n),
                   !.stored = Append(@, m.rx),
                   !.evs = Append(@, EvRX(m.rx))]
  ELSE [m EXCEPT !.evs = Append(@, EvRX(m.rx))]

\* the Completion Path up to the call of i2c_bus_reset
i2cn_mstop_sm(m) ==
  IF m.fail THEN m
  ELSE IF mstop_handled(m.d.curr_state)
  THEN [m EXCEPT !.d.busy = I2C_BUS_READY,
                 !.ops = @ \o mstop_ops(m.d.i2c_cb),
                 !.evs = Append(@, EvMSTOP)]
  ELSE [m EXCEPT !.fail = TRUE, !.evs = Append(@, EvMSTOP)]

\* lines 294-316 / 335-357: the handlers of the saved flags, in this order
Dispatch(m, intflags) ==
  LET m1 == IF "ACK" \in intflags THEN i2cn_ack_sm(m) ELSE m
      m2 == IF "NACK" \in intflags THEN i2cn_nack_sm(m1) ELSE m1
      m3 == IF "RXDATAV" \in intflags THEN i2cn_rxdata_sm(m2) ELSE m2
  IN IF "MSTOP" \in intflags THEN i2cn_mstop_sm(m3) ELSE m3

\* what a vector entry did, counted
NumCalls(ops, f) == Cardinality({i \in 1..Len(ops) : ops[i].k = "CALL" /\ ops[i].c = f})
RECURSIVE Scheduled(_)
Scheduled(ops) ==
  IF ops = <<>> THEN <<>>
  ELSE IF Head(ops).k = "CALL" /\ Head(ops).c = "add_scheduled_event"
       THEN <<Head(ops).v>> \o Scheduled(Tail(ops))
       ELSE Scheduled(Tail(ops))

\* ============================================================ i2c_bus_reset
\* lines 58-79: abort, save IEN, disable all sources, clear the flags, the
\* assertion, clear the transmit buffer and MSTOP, then START+STOP.  pending
\* is IF at entry; raised is what the peripheral raises between the write to
\* IFC (line 67) and the read of IF in the assertion (line 70): nothing, or
\* RXDATAV for a byte that reached the receive buffer; reset_flags is what
\* that read returns.  The caller then spins at line 82
\* until MSTOP is raised.
ResetRaises == {{}, {"RXDATAV"}}
reset_flags(pending, raised) == (pending \ I2C_IFC_MASK) \cup raised
bus_reset_begin(p, from, pending, raised) ==
  /\ rst' = [rst EXCEPT ![p] = [active |-> TRUE, ien_state |-> I2C_IEN[p], from |-> from,
                                entry |-> pending, still |-> reset_flags(pending, raised)]]
  /\ I2C_IEN' = [I2C_IEN EXCEPT ![p] = I2C_IEN_RESETVALUE]
  /\ I2C_IF' = [I2C_IF EXCEPT ![p] = reset_flags(pending, raised) \ {"MSTOP"}]
  /\ hwIdle' = [hwIdle EXCEPT ![p] = FALSE]

\* lines 82-92: MSTOP observed; clear the flags, abort, restore IEN; then
\* return to the caller: i2c_open returns to the task, i2cn_mstop_sm applies
\* its delay, leaves its critical section and the vector returns
i2c_bus_reset_end(p) ==
  /\ ~asserted
  /\ rst[p].active
  /\ "MSTOP" \in I2C_IF[p]
  /\ I2C_IF' = [I2C_IF EXCEPT ![p] = @ \ I2C_IFC_MASK]
  /\ I2C_IEN' = [I2C_IEN EXCEPT ![p] = reset_restore(rst[p].ien_state)]
  /\ hwIdle' = [hwIdle EXCEPT ![p] = TRUE]
  /\ rst' = [rst EXCEPT ![p] = NoRst]
  /\ issued' = [issued EXCEPT ![p] = @ \o <<Cmd("ABORT")>>]
  /\ IF rst[p].from = "open"
     THEN /\ pc' = "idle"
          /\ opened' = [opened EXCEPT ![p] = TRUE]
          /\ UNCHANGED primask
     ELSE /\ primask' = FALSE
          /\ UNCHANGED <<pc, opened>>
  /\ UNCHANGED <<sm, data, nvic, arg, asserted, blocks, unblocks,
                 ncopy, inflight, start, trace, log, rxlog, cbs, rel>>

\* ================================================================= i2c_open
\* lines 110-171.  The clock enable, I2C_Init and the pin routing leave the
\* modelled state alone; the START flag toggled at lines 133-149 is cleared
\* again by the bus reset the function ends with.
i2c_open(p) ==
  /\ TaskRuns
  /\ pc = "idle"
  /\ \A q \in Periph : ~opened[q]
  /\ \E raised \in ResetRaises :
       /\ bus_reset_begin(p, "open", I2C_IF[p], raised)
       /\ asserted' = ~reset_assert_ok(reset_flags(I2C_IF[p], raised))
  /\ issued' = [issued EXCEPT ![p] = reset_cmds]
  /\ pc' = "open"
  /\ UNCHANGED <<sm, data, nvic, primask, arg, opened, blocks,
                 unblocks, ncopy, inflight, start, trace, log, rxlog, cbs, rel>>

\* ============================================================== i2c_init_sm
\* lines 200-247.  sleep_block_mode, then the critical section: mark the
\* caller's descriptor busy, enable the interrupt sources, wait for the live
\* descriptor to be free, assert the bus idle, copy, enable the vector.
\* While the live descriptor is busy the function stays in
\* `while(i2cN_sm.busy);` (pc = "spin") and evaluates the condition again.
i2c_init_sm(t) ==
  /\ ~asserted
  /\ \/ /\ pc = "idle"
        /\ ~primask
        /\ opened[t.I2Cn]
        /\ blocks < MaxTrans
        /\ blocks' = blocks + 1
     \/ /\ pc = "spin"
        /\ t = arg
        /\ UNCHANGED blocks
  /\ LET p == t.I2Cn IN
       /\ arg' = [t EXCEPT !.busy = I2C_BUS_BUSY]
       /\ I2C_IEN' = [I2C_IEN EXCEPT ![p] = I2C_IEN_MASK]
       /\ IF ~bus_ready(p)
          THEN /\ pc' = "spin"
               /\ primask' = wait_primask
               /\ UNCHANGED <<sm, nvic, asserted, ncopy, inflight, start, trace,
                              log, issued, rxlog, cbs, rel>>
          ELSE IF ~hwIdle[p]
          THEN /\ asserted' = TRUE
               /\ primask' = TRUE
               /\ UNCHANGED <<sm, nvic, pc, ncopy, inflight, start, trace,
                              log, issued, rxlog, cbs, rel>>
          ELSE /\ sm' = [sm EXCEPT ![p] = init_copy(t)]
               /\ nvic' = [nvic EXCEPT ![p] = TRUE]
               /\ primask' = FALSE
               /\ pc' = "started"
               /\ ncopy' = [ncopy EXCEPT ![p] = @ + 1]
               /\ inflight' = [inflight EXCEPT ![p] = @ \cup {ncopy[p] + 1}]
               /\ start' = [start EXCEPT ![p] =
                              [curr_state |-> t.curr_state,
                               num_bytes |-> t.num_bytes, data |-> data[p]]]
               /\ trace' = [trace EXCEPT ![p] = <<>>]
               /\ log' = [log EXCEPT ![p] = <<>>]
               /\ issued' = [issued EXCEPT ![p] = <<>>]
               /\ rxlog' = [rxlog EXCEPT ![p] = <<>>]
               /\ cbs' = [cbs EXCEPT ![p] = <<>>]
               /\ rel' = [rel EXCEPT ![p] = 0]
               /\ UNCHANGED asserted
  /\ UNCHANGED <<data, I2C_IF, hwIdle, rst, opened, unblocks>>

\* ============================================================= i2c_tx_start
\* lines 250-262, called by the task after i2c_init_sm returned
i2c_tx_start(rw) ==
  /\ TaskRuns
  /\ pc = "started"
  /\ LET p == arg.I2Cn
         cmds == <<Cmd("START"), Tx(tx_header(arg.slave_addr, rw))>>
     IN /\ issued' = [issued EXCEPT ![p] = cmds]
        /\ log' = [log EXCEPT ![p] = IF trace[p] = Off THEN <<>> ELSE @ \o cmds]
        /\ hwIdle' = [hwIdle EXCEPT ![p] = BusIdleAfter(@, cmds)]
        /\ I2C_IF' = [I2C_IF EXCEPT ![p] = @ \cup StartRaised(cmds)]
  /\ pc' = "idle"
  /\ arg' = NoArg
  /\ UNCHANGED <<sm, data, I2C_IEN, nvic, primask, rst,
                 opened, asserted, blocks, unblocks, ncopy, inflight, start,
                 trace, rxlog, cbs, rel>>

\* ================================================================= hardware
\* the bus completes the START+STOP cycle of i2c_bus_reset
HwResetStop(p) ==
  /\ ~asserted
  /\ rst[p].active
  /\ "MSTOP" \notin I2C_IF[p]
  /\ I2C_IF' = [I2C_IF EXCEPT ![p] = @ \cup {"MSTOP"} \cup StartRaised(reset_cmds)]
  /\ UNCHANGED <<sm, data, I2C_IEN, hwIdle, nvic, primask, pc, arg,
                 rst, opened, asserted, blocks, unblocks, ncopy, inflight,
                 start, trace, log, issued, rxlog, cbs, rel>>

\* the peripheral raises flag f while the task waits in i2c_init_sm with
\* interrupts suppressed: no vector is entered and the flag stays pending
\* (whatever is raised after the first pending flag changes nothing more)
HwRaiseMasked(p, f) ==
  /\ ~asserted
  /\ pc = "spin"
  /\ primask
  /\ p = arg.I2Cn
  /\ I2C_IF[p] \cap I2C_Flags = {}
  /\ I2C_IF' = [I2C_IF EXCEPT ![p] = @ \cup {f}]
  /\ UNCHANGED <<sm, data, I2C_IEN, hwIdle, nvic, primask, pc, arg, rst,
                 opened, asserted, blocks, unblocks, ncopy, inflight, start,
                 trace, log, issued, rxlog, cbs, rel>>

\* ========================================= I2C0_IRQHandler, I2C1_IRQHandler
\* The peripheral raises the flags F (with byte b in RXDATA when RXDATAV is
\* among them; the byte is read in this vector entry or not at all)
\* on a peripheral that has been armed, and the vector is entered: lines
\* 289-292 / 330-333 save the flags both raised and enabled and lower them,
\* then the handlers run.  Events are not modelled any further once
\* sleep_unblock_mode was called more often than sleep_block_mode, nor
\* between the return of i2c_init_sm and i2c_tx_start.
I2Cn_IRQHandler(p, F, b) ==
  /\ ~asserted
  /\ ~primask
  /\ nvic[p]
  /\ ~rst[p].active
  /\ pc # "started"
  /\ unblocks <= blocks
  /\ F \cap I2C_IF[p] = {}
  /\ LET raised == I2C_IF[p] \cup F
         intflags == irq_flags(raised, I2C_IEN[p])
         m == Dispatch(Machine(p, b), intflags)
         n == NumCalls(m.ops, "sleep_unblock_mode")
         reset == NumCalls(m.ops, "i2c_bus_reset") > 0
         freed == \E i \in 1..Len(m.ops) : m.ops[i] = Store("busy")
         tr == FollowAll(trace[p], m.evs)
     IN /\ intflags # {}
        /\ sm' = [sm EXCEPT ![p] = m.d]
        /\ data' = [data EXCEPT ![p] = m.buf]
        /\ unblocks' = unblocks + n
        /\ rel' = [rel EXCEPT ![p] = @ + n]
        /\ cbs' = [cbs EXCEPT ![p] = @ \o Scheduled(m.ops)]
        /\ inflight' = [inflight EXCEPT ![p] = IF freed THEN @ \ {ncopy[p]} ELSE @]
        /\ rxlog' = [rxlog EXCEPT ![p] = @ \o m.stored]
        /\ trace' = [trace EXCEPT ![p] = tr]
        /\ log' = [log EXCEPT ![p] = IF tr = Off THEN <<>> ELSE @ \o BusWrites(m.ops)]
        /\ IF reset
           THEN /\ \E again \in ResetRaises :
                     /\ bus_reset_begin(p, "mstop", raised \ intflags, again)
                     /\ asserted' = (m.fail \/
                                      ~reset_assert_ok(reset_flags(raised \ intflags, again)))
                /\ primask' = TRUE
                /\ issued' = [issued EXCEPT ![p] = m.ops \o reset_cmds]
           ELSE /\ I2C_IF' = [I2C_IF EXCEPT ![p] = (raised \ intflags) \cup StartRaised(m.ops)]
                /\ hwIdle' = [hwIdle EXCEPT ![p] = BusIdleAfter(@, m.ops)]
                /\ asserted' = m.fail
                /\ issued' = [issued EXCEPT ![p] = m.ops]
                /\ UNCHANGED <<I2C_IEN, rst, primask>>
  /\ UNCHANGED <<nvic, pc, arg, opened, blocks, ncopy, start>>

\* ===================================================================== Next
Next ==
  \/ \E p \in Periph : i2c_open(p)
  \/ \E p \in Periph : i2c_bus_reset_end(p)
  \/ \E t \in Descriptor : i2c_init_sm(t)
  \/ \E rw \in {SI7021_I2C_WRITE} : i2c_tx_start(rw)
  \/ \E p \in Periph : HwResetStop(p)
  \/ \E p \in Periph, f \in I2C_Flags : HwRaiseMasked(p, f)
  \/ \E p \in Periph, F \in (SUBSET I2C_Flags) \ {{}} :
       \E b \in (IF "RXDATAV" \in F THEN Bytes ELSE {0}) : I2Cn_IRQHandler(p, F, b)

Spec == Init /\ [][Next]_vars

\* ================================================================== claims
\* big-endian concatenation of a sequence of bytes
RECURSIVE BigEndian(_)
BigEndian(bs) ==
  IF bs = <<>> THEN 0
  ELSE BigEndian(SubSeq(bs, 1, Len(bs) - 1)) * 256 + bs[Len(bs)]

\* a step in which i2c_init_sm gets past its wait on the live descriptor of p
PassesWait(p) ==
  /\ \E t \in Descriptor : t.I2Cn = p /\ i2c_init_sm(t)
  /\ pc' # "spin"

\* a step in which a received byte is stored for p
StoresByte(p) == Len(rxlog'[p]) = Len(rxlog[p]) + 1

\* C1: mutual exclusion per peripheral.  i2c_init_sm never gets past its wait
\* (and so never copies the caller's descriptor into the live slot) while the
\* live descriptor is busy, and at most one transaction is in flight per
\* peripheral in every reachable state.
C1_MutualExclusion ==
  /\ [](\A p \in Periph : Cardinality(inflight[p]) <= 1)
  /\ [][\A p \in Periph : PassesWait(p) => ~sm[p].busy]_vars

\* a second transaction was copied into the slot after the first one completed
C1_Witness ==
  \E p \in Periph : ncopy[p] = 2 /\ sm[p].busy /\ inflight[p] = {2} /\ unblocks = 1

\* C2: the busy-wait of i2c_init_sm runs with interrupts enabled, so that the
\* handlers can run during the wait and clear busy.
C2_WaitInterruptible == (pc = "spin") => ~primask

\* C3: energy-mode pairing.  sleep_unblock_mode is never called more often
\* than sleep_block_mode, and as often whenever no transaction is in flight
\* and no call of i2c_init_sm is under way.
C3_EnergyPairing ==
  /\ unblocks <= blocks
  /\ (pc = "idle" /\ ~asserted /\ \A p \in Periph : inflight[p] = {})
       => unblocks = blocks

\* C4: num_bytes is never negative; every byte stored takes it down by one;
\* the store that brings it to zero issues NACK then STOP and moves to m_stop,
\* every other store issues only ACK and stays in data_rx; the bytes stored
\* and the bytes still expected always add up to the bytes requested, so zero
\* is reached once.
C4_Countdown ==
  /\ [](\A p \in Periph :
          /\ sm[p].num_bytes >= 0
          /\ ncopy[p] > 0 => Len(rxlog[p]) + sm[p].num_bytes = start[p].num_bytes)
  /\ [][\A p \in Periph : StoresByte(p) =>
          /\ sm[p].num_bytes > 0
          /\ sm'[p].num_bytes = sm[p].num_bytes - 1
          /\ IF sm'[p].num_bytes = 0
             THEN /\ SubSeq(BusWrites(issued'[p]), 1, 2) = <<Cmd("NACK"), Cmd("STOP")>>
                  /\ sm'[p].curr_state = "m_stop"
             ELSE /\ BusWrites(issued'[p]) = <<Cmd("ACK")>>
                  /\ sm'[p].curr_state = "data_rx"]_vars

\* a two-byte read has stored both bytes
C4_Witness ==
  \E p \in Periph :
    /\ start[p].num_bytes = 2 /\ Len(rxlog[p]) = 2
    /\ sm[p].num_bytes = 0 /\ sm[p].curr_state = "m_stop"

\* C5 as stated: after all N bytes the buffer equals the big-endian
\* concatenation of the received bytes.
C5_BufferIsPayload ==
  \A p \in Periph :
    (ncopy[p] > 0 /\ Len(rxlog[p]) = start[p].num_bytes)
      => data[p] = BigEndian(rxlog[p])

\* C5, amended: the byte received while num_bytes = k is ORed into the buffer
\* at bit position (k-1)*8, so after all N bytes the buffer equals the bitwise
\* OR of its contents at the start of the transaction and the big-endian
\* concatenation of the received bytes (the concatenation itself when the
\* buffer was zero at the start).
C5_MsbFirst ==
  /\ [](\A p \in Periph :
          (ncopy[p] > 0 /\ Len(rxlog[p]) = start[p].num_bytes)
            => /\ data[p] = BitOr(start[p].data, BigEndian(rxlog[p]))
               /\ start[p].data = 0 => data[p] = BigEndian(rxlog[p]))
  /\ [][\A p \in Periph : StoresByte(p) =>
          data'[p] = BitOr(data[p],
                           rxlog'[p][Len(rxlog'[p])] * 2^((sm[p].num_bytes - 1) * 8))]_vars

\* a two-byte read completed into a buffer that still held an earlier result
C5_Witness ==
  \E p \in Periph :
    /\ start[p].num_bytes = 2 /\ Len(rxlog[p]) = 2
    /\ start[p].data # 0 /\ data[p] # BigEndian(rxlog[p])

\* C6: a NACK handled in req_res, command_tx or data_req leaves curr_state
\* alone and issues START + header (write), CONT + measure command, START +
\* header (read) respectively, the header being the byte (slave_addr << 1) | rw.
C6_NackTable ==
  [][\A p \in Periph :
       (I2Cn_IRQHandler(p, {"NACK"}, 0) /\ nack_handled(sm[p].curr_state)) =>
         /\ sm'[p].curr_state = sm[p].curr_state
         /\ issued'[p] =
              CASE sm[p].curr_state = "req_res" ->
                     <<Cmd("START"), Tx(BitOr(sm[p].slave_addr * 2, SI7021_I2C_WRITE))>>
                [] sm[p].curr_state = "command_tx" ->
                     <<Cmd("CONT"), Tx(measure_RH_NHMM)>>
                [] sm[p].curr_state = "data_req" ->
                     <<Cmd("START"), Tx(BitOr(sm[p].slave_addr * 2, SI7021_I2C_READ))>>]_vars

\* C7 as stated: num_bytes = 2 and the events ACK, ACK, byte(0xAB),
\* byte(0x12), stop-detected end with 0xAB12 in the buffer, busy false, one
\* callback scheduled, one sleep_unblock_mode and no assertion failure.
C7_ReadTwoAcks ==
  \A p \in Periph :
    (trace[p] = ScenarioRead2 /\ start[p].num_bytes = 2 /\ start[p].data = 0
       /\ start[p].curr_state = "req_res")
      => /\ data[p] = 43794
         /\ sm[p].busy = I2C_BUS_READY
         /\ cbs[p] = <<sm[p].i2c_cb>>
         /\ rel[p] = 1
         /\ ~asserted

\* C7, amended: a transaction copied with curr_state = req_res, num_bytes = 2
\* and a zero buffer, followed by the events ACK, ACK, ACK, byte(0xAB),
\* byte(0x12), stop-detected, ends with 0xAB12 in the buffer, busy false, one
\* callback scheduled and one sleep_unblock_mode, and no assertion fails on
\* the way.
C7_ReadThreeAcks ==
  \A p \in Periph :
    (start[p].num_bytes = 2 /\ start[p].data = 0 /\ start[p].curr_state = "req_res")
      => /\ IsPrefix(trace[p], ScenarioRead3) => ~asserted
         /\ trace[p] = ScenarioRead3 =>
              /\ data[p] = 43794
              /\ sm[p].busy = I2C_BUS_READY
              /\ cbs[p] = <<sm[p].i2c_cb>>
              /\ rel[p] = 1

C7_Witness ==
  \E p \in Periph :
    /\ trace[p] = ScenarioRead3 /\ start[p].num_bytes = 2 /\ start[p].data = 0
    /\ start[p].curr_state = "req_res" /\ ~rst[p].active

\* C8: retry.  From req_res, after ACK, NACK the descriptor is still in
\* command_tx; after ACK, NACK, ACK it is the descriptor reached by ACK, ACK
\* (in data_req), the buffer is untouched on both paths, and the commands
\* issued since the copy are those of the path with no NACK with exactly the
\* pair CONT, measure command inserted.
C8_Retry ==
  \A p \in Periph :
    start[p].curr_state = "req_res" =>
      LET first == <<Cmd("START"), Tx(BitOr(sm[p].slave_addr * 2, SI7021_I2C_WRITE)),
                     Tx(measure_RH_NHMM)>>
          last == <<Cmd("START"), Tx(BitOr(sm[p].slave_addr * 2, SI7021_I2C_READ))>>
          reached == [curr_state |-> "data_req", busy |-> I2C_BUS_BUSY,
                      slave_addr |-> SI7021_ADDR, num_bytes |-> start[p].num_bytes,
                      i2c_cb |-> sm[p].i2c_cb]
      IN /\ trace[p] = <<EvACK, EvACK>> =>
              sm[p] = reached /\ data[p] = start[p].data /\ log[p] = first \o last
         /\ trace[p] = <<EvACK, EvNACK>> => sm[p].curr_state = "command_tx"
         /\ trace[p] = ScenarioRetry =>
              /\ sm[p] = reached /\ data[p] = start[p].data
              /\ log[p] = first \o <<Cmd("CONT"), Tx(measure_RH_NHMM)>> \o last
              /\ ~asserted

C8_Witness ==
  \E p \in Periph : trace[p] = ScenarioRetry /\ start[p].curr_state = "req_res"

\* C9: i2c_bus_reset leaves IEN as it found it: IEN is zero from the disable
\* step to the restore step, IEN after the restore is IEN at entry, and the
\* procedure never fails its assertion.
C9_ResetKeepsIEN ==
  /\ [](\A p \in Periph : rst[p].active => I2C_IEN[p] = {})
  /\ [][\A p \in Periph :
          /\ (~rst[p].active /\ rst'[p].active) =>
               (rst'[p].ien_state = I2C_IEN[p] /\ ~asserted')
          /\ (rst[p].active /\ ~rst'[p].active) =>
               (I2C_IEN'[p] = rst[p].ien_state /\ ~asserted')]_vars

\* the reset at the end of a Completion Path has restored a non-zero IEN
C9_Witness ==
  \E p \in Periph :
    /\ ~rst[p].active /\ ~primask /\ ~asserted /\ unblocks = 1
    /\ ncopy[p] = 1 /\ ~sm[p].busy /\ I2C_IEN[p] = I2C_IEN_MASK

\* C10: after i2c_init_sm the live descriptor is busy and in req_res, whatever
\* the caller's descriptor held in those two fields.
C10_InitSetsState ==
  [][\A p \in Periph : (PassesWait(p) /\ ~asserted') =>
       (sm'[p].busy = I2C_BUS_BUSY /\ sm'[p].curr_state = "req_res")]_vars

\* what an operation did besides writing to CMD and TXDATA
NonBusSteps(ops) == SelectSeq(ops, LAMBDA o : o.k \in {"STORE", "CALL"})

\* C11: protocol violations are fatal.  An ACK or NACK handled in data_rx or
\* m_stop, and an MSTOP handled in any state but m_stop, fail the assertion
\* and leave the descriptor and the buffer alone and issue no command; an
\* RXDATAV handled in any state but data_rx changes nothing, issues nothing
\* and fails no assertion.
C11_ViolationsFatal ==
  [][\A p \in Periph :
       LET untouched == sm'[p] = sm[p] /\ data'[p] = data[p] /\ issued'[p] = <<>>
       IN /\ (sm[p].curr_state \in {"data_rx", "m_stop"} /\ I2Cn_IRQHandler(p, {"ACK"}, 0))
               => (asserted' /\ untouched)
          /\ (sm[p].curr_state \in {"data_rx", "m_stop"} /\ I2Cn_IRQHandler(p, {"NACK"}, 0))
               => (asserted' /\ untouched)
          /\ (sm[p].curr_state # "m_stop" /\ I2Cn_IRQHandler(p, {"MSTOP"}, 0))
               => (asserted' /\ untouched)
          /\ \A b \in Bytes :
               (sm[p].curr_state # "data_rx" /\ I2Cn_IRQHandler(p, {"RXDATAV"}, b))
                 => (~asserted' /\ untouched)]_vars

\* an assertion failed in data_rx with nothing issued
C11_Witness ==
  \E p \in Periph :
    asserted /\ sm[p].busy /\ sm[p].curr_state = "data_rx" /\ issued[p] = <<>>

\* C12: the Completion Path runs in this order: busy cleared, sleep mode
\* unblocked, the descriptor's callback scheduled, and only then the bus
\* reset, whose commands all follow.
C12_CompletionOrder ==
  [][\A p \in Periph : rel'[p] > rel[p] =>
       LET ops == issued'[p]
           at == CHOOSE i \in 1..Len(ops) : ops[i] = Call("i2c_bus_reset", 0)
       IN /\ NonBusSteps(ops) =
               <<Store("busy"), Call("sleep_unblock_mode", 0),
                 Call("add_scheduled_event", sm[p].i2c_cb), Call("i2c_bus_reset", 0)>>
          /\ SubSeq(ops, at + 1, Len(ops)) =
               <<Cmd("ABORT"), Cmd("CLEARTX"), Cmd("START|STOP")>>
          /\ \A i \in 1..(at - 1) : ops[i] # Cmd("ABORT")
          /\ sm'[p].busy = I2C_BUS_READY
          /\ cbs'[p] = Append(cbs[p], sm[p].i2c_cb)]_vars

\* a Completion Path has run and its bus reset is under way
C12_Witness ==
  \E p \in Periph :
    rst[p].active /\ rst[p].from = "mstop" /\ cbs[p] = <<sm[p].i2c_cb>> /\ rel[p] = 1

\* C13: i2c_init_sm itself starts the bus traffic.  When it returns it has
\* left its critical section, has issued START followed by the address+write
\* header, and the live descriptor is still busy.
C13_InitStartsBus ==
  [][\A p \in Periph : (PassesWait(p) /\ ~asserted') =>
       /\ ~primask'
       /\ sm'[p].busy = I2C_BUS_BUSY
       /\ issued'[p] =
            <<Cmd("START"), Tx(BitOr(sm'[p].slave_addr * 2, SI7021_I2C_WRITE))>>]_vars

\* ------------------------------------------------ a slave that follows the
\* protocol: the flags the peripheral raises next for a transaction in flight
ExpectedFlags(st) ==
  CASE st \in {"req_res", "command_tx", "data_req"} -> {{"ACK"}, {"NACK"}}
    [] st = "data_rx" -> {{"RXDATAV"}}
    [] st = "m_stop" -> {{"MSTOP"}}

\* a vector entry for flags the transaction in flight on p expects
ProtocolEvent(p, F, b) ==
  /\ sm[p].busy = I2C_BUS_BUSY
  /\ F \in ExpectedFlags(sm[p].curr_state)
  /\ I2Cn_IRQHandler(p, F, b)

NextLive ==
  \/ \E p \in Periph : i2c_open(p)
  \/ \E p \in Periph : i2c_bus_reset_end(p)
  \/ \E t \in Descriptor : i2c_init_sm(t)
  \/ \E rw \in {SI7021_I2C_WRITE} : i2c_tx_start(rw)
  \/ \E p \in Periph : HwResetStop(p)
  \/ \E p \in Periph, F \in (SUBSET I2C_Flags) \ {{}} :
       \E b \in (IF "RXDATAV" \in F THEN Bytes ELSE {0}) : ProtocolEvent(p, F, b)

\* The task goes on to i2c_tx_start once i2c_init_sm has returned; the bus
\* completes the START+STOP of a reset and the reset then finishes; a pending
\* enabled interrupt is delivered whenever interrupts are not suppressed; the
\* slave ACKs in the end, sends the bytes asked for, and the STOP goes out.
SpecLive ==
  /\ Init
  /\ [][NextLive]_vars
  /\ WF_vars(i2c_tx_start(SI7021_I2C_WRITE))
  /\ WF_vars(\E p \in Periph : HwResetStop(p))
  /\ WF_vars(\E p \in Periph : i2c_bus_reset_end(p))
  /\ WF_vars(\E p \in Periph : ProtocolEvent(p, {"ACK"}, 0))
  /\ WF_vars(\E p \in Periph, b \in Bytes : ProtocolEvent(p, {"RXDATAV"}, b))
  /\ WF_vars(\E p \in Periph : ProtocolEvent(p, {"MSTOP"}, 0))

\* C14: liveness of a transaction.  Once the live descriptor is busy, the
\* Completion Path eventually runs and busy becomes false.
C14_Completes ==
  \A p \in Periph : (sm[p].busy = I2C_BUS_BUSY) ~> (sm[p].busy = I2C_BUS_READY)

\* C15: the ACK transitions.  ACK in req_res transmits the measure command
\* and moves to command_tx; ACK in command_tx issues START, transmits
\* (slave_addr << 1) | read bit and moves to data_req; ACK in data_req issues
\* nothing and moves to data_rx; nothing else in the descriptor or the buffer
\* changes.  From req_res no byte is stored before the third ACK.
C15_AckTable ==
  /\ [][\A p \in Periph :
          (I2Cn_IRQHandler(p, {"ACK"}, 0) /\ sm[p].curr_state \in {"req_res", "command_tx", "data_req"})
            => /\ data'[p] = data[p]
               /\ ~asserted'
               /\ CASE sm[p].curr_state = "req_res" ->
                         /\ sm'[p] = [sm[p] EXCEPT !.curr_state = "command_tx"]
                         /\ issued'[p] = <<Tx(measure_RH_NHMM)>>
                    [] sm[p].curr_state = "command_tx" ->
                         /\ sm'[p] = [sm[p] EXCEPT !.curr_state = "data_req"]
                         /\ issued'[p] =
                              <<Cmd("START"), Tx(BitOr(sm[p].slave_addr * 2, SI7021_I2C_READ))>>
                    [] sm[p].curr_state = "data_req" ->
                         /\ sm'[p] = [sm[p] EXCEPT !.curr_state = "data_rx"]
                         /\ issued'[p] = <<>>]_vars
  /\ [](\A p \in Periph : start[p].curr_state = "req_res" =>
          /\ trace[p] = <<EvACK, EvACK, EvRX(171)>> => rxlog[p] = <<>>
          /\ trace[p] = <<EvACK, EvACK, EvACK>> =>
               (sm[p].curr_state = "data_rx" /\ rxlog[p] = <<>>)
          /\ trace[p] = <<EvACK, EvACK, EvACK, EvRX(171)>> => rxlog[p] = <<171>>)

\* the first byte was stored right after the third ACK
C15_Witness ==
  \E p \in Periph :
    /\ start[p].curr_state = "req_res"
    /\ trace[p] = <<EvACK, EvACK, EvACK, EvRX(171)>> /\ rxlog[p] = <<171>>

\* C16: the header byte a NACK retry transmits is the byte of the original
\* attempt: (slave_addr << 1) | write bit in req_res, as i2c_tx_start sent it,
\* and (slave_addr << 1) | read bit in data_req, as the ACK handler sent it in
\* command_tx; when the step before was that original attempt, the retry
\* issues exactly what it issued.
C16_RetrySameHeader ==
  [][\A p \in Periph :
       (I2Cn_IRQHandler(p, {"NACK"}, 0) /\ sm[p].curr_state \in {"req_res", "data_req"}) =>
         /\ Len(issued'[p]) = 2
         /\ issued'[p][2] =
              Tx(BitOr(Shl(sm[p].slave_addr, 1),
                       IF sm[p].curr_state = "req_res" THEN SI7021_I2C_WRITE
                                                       ELSE SI7021_I2C_READ))
         /\ (Len(issued[p]) = 2 /\ issued[p][1] = Cmd("START")) =>
              issued'[p][2] = issued[p][2]]_vars

\* C18: once the completion path has run, an interrupt delivered for that
\* peripheral while busy is false does not run it again: no second
\* sleep_unblock_mode, no second callback, no change of the descriptor.
C18_TerminalAfterCompletion ==
  [][\A p \in Periph :
       (/\ rel[p] > 0 /\ sm[p].busy = I2C_BUS_READY
        /\ \E F \in SUBSET I2C_Flags, b \in Bytes : I2Cn_IRQHandler(p, F, b))
         => /\ unblocks' = unblocks
            /\ rel'[p] = rel[p]
            /\ cbs'[p] = cbs[p]
            /\ sm'[p] = sm[p]]_vars

\* C20 as stated: at completion the buffer is the OR of its contents at the
\* start and the big-endian payload, and it equals the payload exactly when
\* it was zero at the start.
C20_PayloadIffZero ==
  \A p \in Periph :
    (ncopy[p] > 0 /\ Len(rxlog[p]) = start[p].num_bytes)
      => /\ data[p] = BitOr(start[p].data, BigEndian(rxlog[p]))
         /\ (data[p] = BigEndian(rxlog[p])) <=> (start[p].data = 0)

\* C20, amended: no step clears a bit of the buffer; at completion the buffer
\* is the OR of its contents at the start and the big-endian payload, and it
\* equals the payload exactly when every bit set at the start is also set in
\* the payload (in particular when the buffer was zero at the start).
C20_OrAccumulates ==
  /\ [][\A p \in Periph : BitOr(data'[p], data[p]) = data'[p]]_vars
  /\ [](\A p \in Periph :
          (ncopy[p] > 0 /\ Len(rxlog[p]) = start[p].num_bytes)
            => /\ data[p] = BitOr(start[p].data, BigEndian(rxlog[p]))
               /\ BitOr(data[p], start[p].data) = data[p]
               /\ (data[p] = BigEndian(rxlog[p]))
                    <=> (BitOr(BigEndian(rxlog[p]), start[p].data) = BigEndian(rxlog[p]))
               /\ start[p].data = 0 => data[p] = BigEndian(rxlog[p]))

\* a read completed with the payload in a buffer that was not zero at its start
C20_Witness ==
  \E p \in Periph :
    /\ ncopy[p] > 0 /\ Len(rxlog[p]) = start[p].num_bytes
    /\ start[p].data # 0 /\ data[p] = BigEndian(rxlog[p])

\* C17: the assertion of i2c_bus_reset is effective: when a flag of the
\* peripheral is still set after the sources were disabled and the flags
\* cleared, the assertion fails and neither CLEARTX nor START+STOP is issued.
C17_ResetAssertEffective ==
  \A p \in Periph :
    (rst[p].active /\ rst[p].still # {})
      => /\ asserted
         /\ \A i \in 1..Len(issued[p]) :
              issued[p][i] \notin {Cmd("CLEARTX"), Cmd("START|STOP")}

\* the steps taken with interrupts enabled and no bus reset of p under way
\* that leave the task where it is are the vector entries (those of the other
\* peripheral leave the registers of p alone)
VectorEntry(p) ==
  /\ ~primask /\ nvic[p] /\ ~rst[p].active
  /\ pc' = pc

\* C19: one vector entry runs the handlers of the flags both pending and
\* enabled in the order ACK, NACK, RXDATAV, MSTOP, each on the state the one
\* before left.  ACK with RXDATAV in data_req: the ACK handler moves to
\* data_rx and the byte is stored in the same entry.  RXDATAV with MSTOP in
\* data_rx with num_bytes = 1: the last byte is stored, the state moves to
\* m_stop and the completion path runs in the same entry without an assertion
\* failure.  A flag pending but not enabled is not lowered by the entry: it is
\* still pending when the entry returns or, when the entry ends in the
\* completion path, when i2c_bus_reset is entered.
C19_VectorOrder ==
  /\ [][\A p \in Periph, b \in Bytes :
          (sm[p].curr_state = "data_req" /\ I2C_IF[p] \cap I2C_Flags = {}
             /\ I2Cn_IRQHandler(p, {"ACK", "RXDATAV"}, b))
            => /\ ~asserted'
               /\ rxlog'[p] = Append(rxlog[p], b)
               /\ data'[p] = BitOr(data[p], Shl(b, MSBYTE_SHIFT * (sm[p].num_bytes - 1)))
               /\ sm'[p].num_bytes = sm[p].num_bytes - 1]_vars
  /\ [][\A p \in Periph, b \in Bytes :
          (sm[p].curr_state = "data_rx" /\ sm[p].num_bytes = 1
             /\ I2C_IF[p] \cap I2C_Flags = {}
             /\ I2Cn_IRQHandler(p, {"RXDATAV", "MSTOP"}, b))
            => /\ ~asserted'
               /\ rxlog'[p] = Append(rxlog[p], b)
               /\ sm'[p].curr_state = "m_stop" /\ sm'[p].busy = I2C_BUS_READY
               /\ rel'[p] = rel[p] + 1
               /\ cbs'[p] = Append(cbs[p], sm[p].i2c_cb)
               /\ rst'[p].active]_vars
  /\ [][\A p \in Periph :
          VectorEntry(p)
            => (I2C_IF[p] \ I2C_IEN[p])
                 \subseteq (IF rst'[p].active THEN rst'[p].entry ELSE I2C_IF'[p])]_vars

\* a two-flag entry stored the last byte and completed the transaction while
\* the START flag, pending and not enabled, stayed up until the bus reset
C19_Witness ==
  \E p \in Periph :
    /\ rst[p].active /\ rst[p].from = "mstop" /\ I2C_IF_START \in rst[p].entry
    /\ ~asserted /\ rel[p] = 1
    /\ Len(rxlog[p]) = start[p].num_bytes
    /\ \E i \in 1..Len(issued[p]) : issued[p][i] = Cmd("NACK")

====
